---- MODULE Spec2Model ----
(***************************************************************************)
(* Model of FileBackedValue<T> (src/src/lib.rs): one value of type T held  *)
(* in memory and persisted as a JSON document in one backing file.         *)
(* T is taken to be an unsigned integer type; the JSON document of such a  *)
(* value is its decimal digit string.                                      *)
(*                                                                         *)
(* The model holds one instance (value, dirty_time), the backing file at   *)
(* path() (existence, content, modification time, access), the system      *)
(* clock, and a record of the last call made on the instance.              *)
(* A panic aborts the process: no method can be called until a new         *)
(* instance is constructed (New, NewAt), while the backing file persists. *)
(***************************************************************************)
EXTENDS Integers, Sequences, FiniteSets, TLC

\* ------------------------------------------------------------------ bounds
MaxVal == 1      \* values a caller passes to insert / get_or_insert*: 0..MaxVal
MaxDur == 1      \* thresholds passed to set_dirty_time: 0..MaxDur
MaxTime == 2     \* the clock runs over 0..MaxTime

Values == 0..MaxVal
Durations == 0..MaxDur
Times == 0..MaxTime

\* ------------------------------------------------------------ Option<T>
None == <<>>
Some(v) == <<v>>
IsSome(o) == o # <<>>
Unwrap(o) == o[1]

\* ------------------------------------------------- serde_json on integers
Digits == <<"0", "1", "2", "3", "4", "5", "6", "7", "8", "9">>

IsDigit(c) == \E i \in 1..10 : Digits[i] = c

DigitVal(c) == (CHOOSE i \in 1..10 : Digits[i] = c) - 1

IsSpace(c) == c \in {" ", "\n", "\t", "\r"}

\* serde_json::to_writer on an unsigned integer: its decimal digits.
RECURSIVE ToJson(_)
ToJson(v) ==
    IF v < 10 THEN <<Digits[v + 1]>>
    ELSE Append(ToJson(v \div 10), Digits[(v % 10) + 1])

RECURSIVE SkipSpace(_)
SkipSpace(s) ==
    IF s # <<>> /\ IsSpace(Head(s)) THEN SkipSpace(Tail(s)) ELSE s

RECURSIVE ParseDigits(_, _)
ParseDigits(s, acc) ==
    IF s # <<>> /\ IsDigit(Head(s))
    THEN ParseDigits(Tail(s), acc * 10 + DigitVal(Head(s)))
    ELSE [val |-> acc, rest |-> s]

\* serde_json::from_reader into an unsigned integer: optional whitespace, a
\* JSON number without sign, fraction or leading zero, optional whitespace,
\* end of input. Anything else is a decode error.
FromJson(s) ==
    LET t == SkipSpace(s) IN
    IF t = <<>> \/ ~IsDigit(Head(t)) THEN [ok |-> FALSE, val |-> 0]
    ELSE LET p == IF Head(t) = "0"
                  THEN [val |-> 0, rest |-> Tail(t)]
                  ELSE ParseDigits(t, 0)
         IN IF SkipSpace(p.rest) = <<>>
            THEN [ok |-> TRUE, val |-> p.val]
            ELSE [ok |-> FALSE, val |-> 0]

\* -------------------------------------------------------- the backing file
\* perm: "rw" the file can be opened and its metadata read; "noread" opening
\* it fails with an error other than NotFound; "nometa" its modification
\* time cannot be obtained.
Perms == {"rw", "noread", "nometa"}

NoFile == [exists |-> FALSE, content |-> <<>>, mtime |-> 0, perm |-> "rw"]

\* How the disk treats one write_file call: "ok" the file can be created
\* and written; "nocreate" create_dir_all or the creating open fails;
\* "nowrite" the file is created and the write to it fails (no space left,
\* file size limit).
DiskModes == {"ok", "nocreate", "nowrite"}

\* Contents another program may leave in the file: documents of values,
\* a document with a trailing newline, a two-digit document, and contents
\* that are not a JSON document (empty, text).
ExtContents ==
    {ToJson(v) : v \in Values}
        \cup {<<"1", "\n">>, <<"1", "0">>, <<>>, <<"x">>}

VARIABLES value, dirty_time, file, now, crashed, last, persisted,
          loaded

vars == <<value, dirty_time, file, now, crashed, last, persisted,
          loaded>>

\* ------------------------------------------------------ results of a call
Ok(o) == [kind |-> "ok", val |-> o]
JsonError == [kind |-> "json", val |-> None]
FileError == [kind |-> "io", val |-> None]
Panic == [kind |-> "panic", val |-> None]

\* Variant of read_file without the NotFound arm: a missing file is an
\* I/O error like any other failure to open it.
ReadFileNotFoundIsError(f) ==
    IF ~f.exists \/ f.perm = "noread" THEN FileError
    ELSE LET p == FromJson(f.content) IN
         IF p.ok THEN Ok(Some(p.val)) ELSE JsonError

\* fn read_file(&self) -> FileBackedValueResult<Option<T>>
ReadFile(f) ==
    IF ~f.exists THEN Ok(None)
    ELSE IF f.perm = "noread" THEN FileError
    ELSE LET p == FromJson(f.content) IN
         IF p.ok THEN Ok(Some(p.val)) ELSE JsonError

\* Variant of write_file that opens with create(true).truncate(true): an
\* existing file is replaced.
WriteFileOverwrite(f, w, v, t) ==
    IF w = "nocreate" THEN [res |-> FileError, file |-> f]
    ELSE [res |-> Ok(None),
          file |-> [exists |-> TRUE,
                    content |-> IF w = "nowrite" THEN <<>> ELSE ToJson(v),
                    mtime |-> t, perm |-> IF f.exists THEN f.perm ELSE "rw"]]

\* fn write_file(&self, value: &T): create_dir_all, then open with
\* create_new(true), then serde_json::to_writer into a BufWriter. res is the
\* returned Result, file the backing file afterwards. The document of a
\* value fits the BufWriter's buffer, so to_writer returns Ok without
\* writing to the file; the buffer is written when the BufWriter is dropped
\* at the end of to_writer, and drop discards the error of a failed write:
\* with w = "nowrite" write_file returns Ok(()) and leaves the created file
\* empty.
WriteFile(f, w, v, t) ==
    IF w = "nocreate" THEN [res |-> FileError, file |-> f]
    ELSE IF f.exists THEN [res |-> FileError, file |-> f]
    ELSE [res |-> Ok(None),
          file |-> [exists |-> TRUE,
                    content |-> IF w = "nowrite" THEN <<>> ELSE ToJson(v),
                    mtime |-> t, perm |-> "rw"]]

\* fn time_since_last_modified(path) -> Option<Duration>
TimeSinceLastModified(f, t) ==
    IF f.exists /\ f.perm # "nometa"
    THEN IF t >= f.mtime THEN Some(t - f.mtime) ELSE None
    ELSE None

\* Variant of file_needs_recomputation with the comparison turned around.
FileNeedsRecomputationYounger(f, t, d) ==
    LET since == TimeSinceLastModified(f, t) IN
    since = None \/ Unwrap(since) <= d

\* Variant of file_needs_recomputation with > in place of >=.
FileNeedsRecomputationStrict(f, t, d) ==
    LET since == TimeSinceLastModified(f, t) IN
    since = None \/ Unwrap(since) > d

\* fn file_needs_recomputation(path, dirty_time) -> bool
FileNeedsRecomputation(f, t, d) ==
    LET since == TimeSinceLastModified(f, t) IN
    since = None \/ Unwrap(since) >= d

\* Variant of file_is_dirty with is_none_or in place of is_some_and.
FileIsDirtyWithoutThreshold(dt, f, t) ==
    dt = None \/ FileNeedsRecomputation(f, t, Unwrap(dt))

\* fn file_is_dirty(&self) -> bool
FileIsDirty(dt, f, t) ==
    IsSome(dt) /\ FileNeedsRecomputation(f, t, Unwrap(dt))

\* --------------------------------------------------- outcomes of the calls
\* The outcome of a call: the in-memory value and the backing file after it,
\* what it returns (or that it panicked), whether it called read_file, the
\* value read_file produced, whether write_file returned Ok, and how often
\* the caller's closure was invoked. found is the backing file as the
\* call's read_file or write_file found it: the file after the call, unless
\* write_file created it. disk is how the disk treated the call's
\* write_file, "none" when the call made no write_file call or write_file
\* found a file in place.
Outcome(v, f, r, rd, g, wr, n) ==
    [value |-> v, file |-> f, ret |-> r, read |-> rd, got |-> g,
     wrote |-> wr, calls |-> n, found |-> f, disk |-> "none"]

\* Variant of set_dirty that also removes the backing file.
SetDirtyOutcomeRemovesFile(val, f) ==
    Outcome(None, NoFile, Ok(val), FALSE, None, FALSE, 0)

\* pub fn set_dirty(&mut self) -> Option<T>
SetDirtyOutcome(val, f) ==
    Outcome(None, f, Ok(val), FALSE, None, FALSE, 0)

\* Variant of get that opens the backing file with create(true): a missing
\* file is left behind empty.
GetOutcomeCreatesFile(val, dt, f, t) ==
    IF val = None \/ FileIsDirty(dt, f, t)
    THEN LET g == IF f.exists THEN f
                  ELSE [exists |-> TRUE, content |-> <<>>, mtime |-> t,
                        perm |-> "rw"]
             r == ReadFile(g)
         IN IF r.kind = "ok"
            THEN Outcome(r.val, g, Ok(r.val), TRUE, r.val, FALSE, 0)
            ELSE Outcome(val, g, r, TRUE, None, FALSE, 0)
    ELSE Outcome(val, f, Ok(val), FALSE, None, FALSE, 0)

\* Variant of get that keeps the held value when the file it reads is
\* missing.
GetOutcomeKeepsOnMissing(val, dt, f, t) ==
    IF val = None \/ FileIsDirty(dt, f, t)
    THEN LET r == ReadFile(f) IN
         IF r.kind = "ok" /\ IsSome(r.val)
         THEN Outcome(r.val, f, Ok(r.val), TRUE, r.val, FALSE, 0)
         ELSE IF r.kind = "ok"
         THEN Outcome(val, f, Ok(val), TRUE, None, FALSE, 0)
         ELSE Outcome(val, f, r, TRUE, None, FALSE, 0)
    ELSE Outcome(val, f, Ok(val), FALSE, None, FALSE, 0)

\* Variant of get that takes the value out of self.value before it reads.
GetOutcomeClearsFirst(val, dt, f, t) ==
    IF val = None \/ FileIsDirty(dt, f, t)
    THEN LET r == ReadFile(f) IN
         IF r.kind = "ok"
         THEN Outcome(r.val, f, Ok(r.val), TRUE, r.val, FALSE, 0)
         ELSE Outcome(None, f, r, TRUE, None, FALSE, 0)
    ELSE Outcome(val, f, Ok(val), FALSE, None, FALSE, 0)

\* pub fn get(&mut self) -> FileBackedValueResult<Option<&T>>
GetOutcome(val, dt, f, t) ==
    IF val = None \/ FileIsDirty(dt, f, t)
    THEN LET r == ReadFile(f) IN
         IF r.kind = "ok"
         THEN Outcome(r.val, f, Ok(r.val), TRUE, r.val, FALSE, 0)
         ELSE Outcome(val, f, r, TRUE, None, FALSE, 0)
    ELSE Outcome(val, f, Ok(val), FALSE, None, FALSE, 0)

\* pub fn insert(&mut self, value: T) -> &T: write_file(..).unwrap(), then
\* self.value.insert(value).
InsertOutcome(val, f, w, t, v) ==
    LET wf == WriteFile(f, w, v, t)
        o == IF wf.res.kind = "ok"
             THEN Outcome(Some(v), wf.file, Ok(Some(v)), FALSE, None, TRUE, 0)
             ELSE Outcome(val, wf.file, Panic, FALSE, None, FALSE, 0)
    IN [o EXCEPT !.found = f, !.disk = IF f.exists THEN "none" ELSE w]

\* The second and third branch of get_or_insert and get_or_insert_with.
LoadOrKeepOutcome(val, f) ==
    IF val = None
    THEN LET r == ReadFile(f) IN
         IF r.kind # "ok" THEN Outcome(val, f, r, TRUE, None, FALSE, 0)
         ELSE IF r.val = None THEN Outcome(val, f, Panic, TRUE, None, FALSE, 0)
         ELSE Outcome(r.val, f, Ok(r.val), TRUE, r.val, FALSE, 0)
    ELSE Outcome(val, f, Ok(val), FALSE, None, FALSE, 0)

\* Variant of get_or_insert that inserts the default whenever no value is
\* held and the file holds none, as Option::get_or_insert does.
GetOrInsertOutcomeFallsBack(val, dt, f, w, t, default) ==
    IF FileIsDirty(dt, f, t) \/ (val = None /\ ReadFile(f) = Ok(None))
    THEN InsertOutcome(val, f, w, t, default)
    ELSE LoadOrKeepOutcome(val, f)

\* pub fn get_or_insert(&mut self, default: T) -> FileBackedValueResult<&T>
GetOrInsertOutcome(val, dt, f, w, t, default) ==
    IF FileIsDirty(dt, f, t)
    THEN InsertOutcome(val, f, w, t, default)
    ELSE LoadOrKeepOutcome(val, f)

\* What the caller's closure does to the backing file while it runs: it
\* leaves it alone, removes it, or writes it (itself, or through another
\* instance on the same path): a document or something that is none.
NoEffect == [kind |-> "none", content |-> <<>>]

ClosureEffects ==
    {NoEffect, [kind |-> "remove", content |-> <<>>]}
        \cup {[kind |-> "write", content |-> c] : c \in {ToJson(0), <<"x">>}}

\* The backing file after a closure with effect fx ran at time t on file f.
AfterClosure(fx, f, t) ==
    IF fx.kind = "remove" THEN NoFile
    ELSE IF fx.kind = "write"
    THEN [exists |-> TRUE, content |-> fx.content, mtime |-> t,
          perm |-> IF f.exists THEN f.perm ELSE "rw"]
    ELSE f

\* Variant of get_or_insert_with that invokes the closure before it looks
\* at the file, as get_or_insert(default()) would.
GetOrInsertWithOutcomeEager(val, dt, f, w, t, default, fx) ==
    LET g == AfterClosure(fx, f, t) IN
    IF FileIsDirty(dt, g, t)
    THEN [InsertOutcome(val, g, w, t, default) EXCEPT !.calls = 1]
    ELSE [LoadOrKeepOutcome(val, g) EXCEPT !.calls = 1]

\* pub fn get_or_insert_with<F>(&mut self, default: F), where the closure
\* returns `default` and has effect fx on the file when invoked:
\* file_is_dirty looks at the file, then (default)() runs, then insert is
\* called on its result and finds the file as the closure left it.
GetOrInsertWithOutcome(val, dt, f, w, t, default, fx) ==
    IF FileIsDirty(dt, f, t)
    THEN [InsertOutcome(val, AfterClosure(fx, f, t), w, t, default)
             EXCEPT !.calls = 1]
    ELSE LoadOrKeepOutcome(val, f)

\* ------------------------------------------------------------ the calls
Calls == {"new", "new_at", "set_dirty_time", "set_dirty", "get", "get_or_insert",
          "get_or_insert_with", "insert"}

NoCall ==
    [op |-> "none", arg |-> None, ret |-> Ok(None), read |-> FALSE,
     wrote |-> FALSE, calls |-> 0, pv |-> None, pfile |-> NoFile,
     dirty |-> FALSE, found |-> NoFile, disk |-> "none"]

\* persisted: the value this instance most recently read from the backing
\* file or wrote to it (its document reached the file), and which of the
\* two it was. loaded: whether this
\* instance has read a value from the backing file.
NotPersisted == [val |-> None, by |-> "none"]

\* Variant of a method call in which set_dirty also clears the threshold.
CallClearsThreshold(op, arg, o) ==
    /\ ~crashed
    /\ value' = o.value
    /\ file' = o.file
    /\ crashed' = (o.ret.kind = "panic")
    /\ last' = [op |-> op, arg |-> arg, ret |-> o.ret, read |-> o.read,
                wrote |-> o.wrote, calls |-> o.calls, pv |-> value,
                pfile |-> file, dirty |-> FileIsDirty(dirty_time, file, now),
                found |-> o.found, disk |-> o.disk]
    /\ persisted' = IF o.wrote /\ o.file.content = ToJson(Unwrap(arg))
                    THEN [val |-> arg, by |-> "write"]
                    ELSE IF IsSome(o.got) THEN [val |-> o.got, by |-> "read"]
                    ELSE persisted
    /\ loaded' = (loaded \/ IsSome(o.got))
    /\ dirty_time' = IF op = "set_dirty" THEN None ELSE dirty_time
    /\ UNCHANGED now

\* A method call on the instance with outcome o: the fields and the file
\* become what the method leaves, and the call is recorded in last with the
\* state it was made in (pv, pfile, dirty) and the file its read_file or
\* write_file found (found).
Call(op, arg, o) ==
    /\ ~crashed
    /\ value' = o.value
    /\ file' = o.file
    /\ crashed' = (o.ret.kind = "panic")
    /\ last' = [op |-> op, arg |-> arg, ret |-> o.ret, read |-> o.read,
                wrote |-> o.wrote, calls |-> o.calls, pv |-> value,
                pfile |-> file, dirty |-> FileIsDirty(dirty_time, file, now),
                found |-> o.found, disk |-> o.disk]
    /\ persisted' = IF o.wrote /\ o.file.content = ToJson(Unwrap(arg))
                    THEN [val |-> arg, by |-> "write"]
                    ELSE IF IsSome(o.got) THEN [val |-> o.got, by |-> "read"]
                    ELSE persisted
    /\ loaded' = (loaded \/ IsSome(o.got))
    /\ UNCHANGED <<dirty_time, now>>

Init ==
    /\ value = None
    /\ dirty_time = None
    /\ file = NoFile
    /\ now = 0
    /\ crashed = FALSE
    /\ last = [NoCall EXCEPT !.op = "new_at"]
    /\ persisted = NotPersisted
    /\ loaded = FALSE

\* A constructor call (also the restart of the process after a panic): a
\* fresh instance on the same path when ok, a panic and no instance
\* otherwise.
Construct(op, ok) ==
    /\ value' = None
    /\ dirty_time' = None
    /\ crashed' = ~ok
    /\ last' = [NoCall EXCEPT !.op = op, !.pfile = file, !.found = file,
                              !.ret = IF ok THEN Ok(None) ELSE Panic]
    /\ persisted' = NotPersisted
    /\ loaded' = FALSE
    /\ UNCHANGED <<file, now>>

\* pub fn new(filename): BaseDirs::new() finds a home directory, whose data
\* directory holds the backing file, or finds none and the expect panics.
New == \E home \in BOOLEAN : Construct("new", home)

\* pub fn new_at(filename, dir)
NewAt == Construct("new_at", TRUE)

SetDirtyTime ==
    \E d \in Durations :
        /\ ~crashed
        /\ dirty_time' = Some(d)
        /\ last' = [NoCall EXCEPT !.op = "set_dirty_time", !.pv = value,
                                  !.pfile = file]
        /\ UNCHANGED <<value, file, now, crashed, persisted, loaded>>

SetDirty == Call("set_dirty", None, SetDirtyOutcome(value, file))

Get == Call("get", None, GetOutcome(value, dirty_time, file, now))

GetOrInsert ==
    \E d \in Values, w \in DiskModes :
        Call("get_or_insert", Some(d),
             GetOrInsertOutcome(value, dirty_time, file, w, now, d))

GetOrInsertWith ==
    \* a closure that is not invoked has no effect
    LET effects == IF FileIsDirty(dirty_time, file, now)
                   THEN ClosureEffects ELSE {NoEffect} IN
    \E d \in Values, fx \in effects, w \in DiskModes :
        Call("get_or_insert_with", Some(d),
             GetOrInsertWithOutcome(value, dirty_time, file, w, now, d, fx))

Insert ==
    \E v \in Values, w \in DiskModes :
        Call("insert", Some(v), InsertOutcome(value, file, w, now, v))

\* ------------------------------------------------------- the environment
\* A step of the environment: the backing file and the clock become f and
\* t. The record of the calls is dropped, so that
\* last always describes a call made in the current environment.
Environment(f, t) ==
    /\ file' = f
    /\ now' = t
    /\ last' = NoCall
    /\ UNCHANGED <<value, dirty_time, crashed, persisted, loaded>>

External(f) == Environment(f, now)

ExtWrite ==
    \E c \in ExtContents :
        External([exists |-> TRUE, content |-> c, mtime |-> now,
                  perm |-> file.perm])

ExtDelete == file.exists /\ External(NoFile)

ExtTouch ==
    \E t \in Times : file.exists /\ t # file.mtime
                     /\ External([file EXCEPT !.mtime = t])

ExtChmod ==
    \E p \in Perms : file.exists /\ p # file.perm
                     /\ External([file EXCEPT !.perm = p])

Tick == now < MaxTime /\ Environment(file, now + 1)

Next ==
    \/ New
    \/ NewAt
    \/ SetDirtyTime
    \/ SetDirty
    \/ Get
    \/ GetOrInsert
    \/ GetOrInsertWith
    \/ Insert
    \/ ExtWrite
    \/ ExtDelete
    \/ ExtTouch
    \/ ExtChmod
    \/ Tick

Spec == Init /\ [][Next]_vars

TypeOK ==
    /\ crashed \in BOOLEAN
    /\ last.disk \in DiskModes \cup {"none"}
    /\ now \in Times
    /\ last.op \in Calls \cup {"none"}

\* ------------------------------------------------------------- the claims
Accessors == {"get", "get_or_insert", "get_or_insert_with"}

InsertOrCompute == {"get_or_insert", "get_or_insert_with"}

Constructors == {"new", "new_at"}

Methods == {"set_dirty", "get", "get_or_insert", "get_or_insert_with",
            "insert"}

\* The last call was made with a threshold set, on a backing file whose
\* modification time could be read and lay less than the threshold back.
CalledOnFreshFile ==
    /\ IsSome(dirty_time)
    /\ last.pfile.exists
    /\ last.pfile.perm # "nometa"
    /\ now >= last.pfile.mtime
    /\ now - last.pfile.mtime < Unwrap(dirty_time)

\* The last call was made with a threshold set, on a backing file that was
\* missing or whose modification lay more than the threshold back.
CalledOnStaleFile ==
    /\ IsSome(dirty_time)
    /\ \/ ~last.pfile.exists
       \/ /\ last.pfile.perm # "nometa"
          /\ now - last.pfile.mtime > Unwrap(dirty_time)

\* C1: once insert(v) has completed, a get() that follows it on the same
\* instance with no threshold set returns Ok(Some(v)), and so does get() on
\* the instance that new / new_at constructs on the same path.
C1_WriteThenReadRoundTrip ==
    [][(last.op = "insert" /\ last.ret.kind = "ok") =>
          /\ (last'.op = "get" /\ dirty_time = None)
                => last'.ret = Ok(last.arg)
          /\ (last'.op \in Constructors /\ last'.ret.kind = "ok")
                => /\ value' = None /\ dirty_time' = None
                   /\ GetOutcome(value', dirty_time', file', now').ret
                          = Ok(last.arg)]_vars

\* C2: a get_or_insert / get_or_insert_with call made with a threshold set,
\* on a backing file that is older than the threshold or missing and that
\* the closure leaves alone, on a disk that can be written, writes the
\* default to the file, stores it as the in-memory value and returns it, and
\* a get() that follows returns it.
C2_StaleTriggersRecomputation ==
    (/\ last.op \in InsertOrCompute
     /\ CalledOnStaleFile
     /\ last.found = last.pfile
     /\ last.disk \in {"none", "ok"}) =>
        /\ last.ret = Ok(last.arg)
        /\ value = last.arg
        /\ file.exists
        /\ file.content = ToJson(Unwrap(last.arg))
        /\ GetOutcome(value, dirty_time, file, now).ret = Ok(last.arg)

\* C3: no get, get_or_insert, get_or_insert_with, insert or set_dirty call
\* ends in a panic.
C3_NoOperationPanics == last.op \in Methods => last.ret.kind # "panic"

\* C4: a get_or_insert_with call that follows set_dirty() on a backing file
\* that exists and holds a document invokes the closure exactly once.
C4_InvalidateForcesRecomputation ==
    [][(/\ last.op = "set_dirty"
        /\ last'.op = "get_or_insert_with"
        /\ file.exists
        /\ ReadFile(file).kind = "ok") => last'.calls = 1]_vars

\* C5: a get() that returns an error leaves the in-memory value as it was
\* before the call.
C5_FailedReadKeepsValue ==
    (last.op = "get" /\ last.ret.kind \in {"json", "io"}) => value = last.pv

C5_Witness ==
    /\ last.op = "get"
    /\ last.ret = JsonError
    /\ last.dirty
    /\ IsSome(last.pv)
    /\ value = last.pv

\* C6: a get() called with no in-memory value or on a dirty file reads the
\* file; a missing file gives Ok(None), a file that cannot be opened the
\* I/O error, a file that holds no JSON document the decode error, and a
\* file that holds the document of v gives Ok(Some(v)).
C6_OutcomeOfRead ==
    (last.op = "get" /\ (last.pv = None \/ last.dirty)) =>
        /\ last.read
        /\ ~last.pfile.exists => last.ret = Ok(None)
        /\ (last.pfile.exists /\ last.pfile.perm = "noread")
              => last.ret = FileError
        /\ (last.pfile.exists /\ last.pfile.perm # "noread") =>
              /\ last.pfile.content \in {<<>>, <<"x">>}
                    => last.ret = JsonError
              /\ last.pfile.content = <<"1", "\n">>
                    => last.ret = Ok(Some(1))
              /\ \A v \in 0..10 :
                    last.pfile.content = ToJson(v) => last.ret = Ok(Some(v))

C6_Witness ==
    /\ last.op = "get"
    /\ last.read
    /\ IsSome(dirty_time)
    /\ ~last.pfile.exists
    /\ last.ret = Ok(None)

\* C7: with no threshold set, an accessor called while a value is held
\* returns that value and keeps it, whatever the backing file has become,
\* and does not read the file.
C7_SingleRead ==
    (last.op \in Accessors /\ dirty_time = None /\ IsSome(last.pv)) =>
        /\ last.ret = Ok(last.pv)
        /\ value = last.pv
        /\ ~last.read

\* The held value was loaded from the file, which has since been replaced
\* or deleted.
C7_Witness ==
    /\ last.op \in Accessors
    /\ dirty_time = None
    /\ IsSome(last.pv)
    /\ persisted = [val |-> last.pv, by |-> "read"]
    /\ ReadFile(file) # Ok(last.pv)
    /\ last.ret = Ok(last.pv)

\* C8: with a threshold set, a get_or_insert / get_or_insert_with call made
\* while a value is held and the file is younger than the threshold returns
\* the held value, leaves the value and the file as they were, neither
\* reads nor writes the file and does not invoke the closure.
C8_FreshnessSuppressesIO ==
    (last.op \in InsertOrCompute /\ CalledOnFreshFile /\ IsSome(last.pv)) =>
        /\ last.ret = Ok(last.pv)
        /\ value = last.pv
        /\ file = last.pfile
        /\ ~last.read
        /\ ~last.wrote
        /\ last.calls = 0

C8_Witness ==
    /\ last.op = "get_or_insert_with"
    /\ CalledOnFreshFile
    /\ IsSome(last.pv)
    /\ last.arg # last.pv
    /\ last.ret = Ok(last.pv)
    /\ file = last.pfile

\* C9: an insert, called directly or by get_or_insert / get_or_insert_with
\* on a dirty file (in get_or_insert_with after the closure has run), that
\* finds a backing file at the path does not complete, and leaves that file
\* and the in-memory value as they were.
C9_CreateExclusiveWrite ==
    (/\ last.op = "insert" \/ (last.op \in InsertOrCompute /\ last.dirty)
     /\ last.found.exists) =>
        /\ last.ret.kind # "ok"
        /\ ~last.wrote
        /\ file = last.found
        /\ value = last.pv

C9_Witness ==
    /\ last.op = "insert"
    /\ last.pfile.exists
    /\ last.found = last.pfile
    /\ IsSome(last.pv)
    /\ last.arg # last.pv
    /\ last.ret.kind # "ok"
    /\ file = last.pfile
    /\ value = last.pv

\* C10: a held value is the value this instance most recently read from the
\* backing file or wrote to it; a call that wrote leaves the document of its
\* argument in the file and the argument in memory; a call whose write
\* failed leaves the in-memory value as it was.
C10_CacheProvenance ==
    /\ IsSome(value) => persisted.val = value
    /\ last.wrote =>
          /\ value = last.arg
          /\ file.exists
          /\ FromJson(file.content) = [ok |-> TRUE, val |-> Unwrap(last.arg)]
    /\ (/\ last.op = "insert" \/ (last.op \in InsertOrCompute /\ last.dirty)
        /\ ~last.wrote) => value = last.pv

\* C11: a get() leaves the backing file (existence, content, modification
\* time, access) as it was, whatever it returns, and writes nothing.
C11_GetNeverWrites ==
    last.op = "get" => (file = last.pfile /\ ~last.wrote)

\* A get() that read a missing file, and one that read an existing one.
C11_Witness ==
    /\ last.op = "get"
    /\ last.read
    /\ ~last.pfile.exists
    /\ ~file.exists
    /\ last.ret = Ok(None)
    /\ IsSome(last.pv)
    /\ value = None

\* C12: set_dirty() returns the value held before the call, leaves no value
\* in memory, and leaves the backing file and the threshold as they were.
C12_SetDirtyFrame ==
    [][last'.op = "set_dirty" =>
          /\ last'.ret = Ok(value)
          /\ value' = None
          /\ file' = file
          /\ dirty_time' = dirty_time
          /\ ~last'.read
          /\ ~last'.wrote]_vars

C12_Witness ==
    /\ last.op = "set_dirty"
    /\ IsSome(last.pv)
    /\ last.ret = Ok(last.pv)
    /\ value = None
    /\ file.exists
    /\ file = last.pfile
    /\ IsSome(dirty_time)

\* C13: a get_or_insert_with call invokes the closure at most once, and not
\* at all when the backing file is not dirty.
C13_LazyDefault ==
    last.op = "get_or_insert_with" =>
        /\ last.calls \in {0, 1}
        /\ ~last.dirty => last.calls = 0
        /\ (dirty_time = None \/ CalledOnFreshFile)
              => last.calls = 0

\* The value was loaded from the file of a not dirty call; the closure was
\* not invoked.
C13_Witness ==
    /\ last.op = "get_or_insert_with"
    /\ ~last.dirty
    /\ last.pv = None
    /\ last.read
    /\ IsSome(value)
    /\ last.calls = 0

\* C14: on an instance with no threshold that has loaded a value from the
\* backing file, no later get, get_or_insert, get_or_insert_with, insert or
\* set_dirty call reads the file.
C14_NeverReadAgain ==
    [][(loaded /\ dirty_time = None /\ last'.op \in Methods)
          => ~last'.read]_vars

\* C15: a get_or_insert / get_or_insert_with call that finds the file not
\* dirty and holds no value finds the backing file in place, and its unwrap
\* of the value read does not panic.
C15_ExistenceAssumption ==
    (last.op \in InsertOrCompute /\ ~last.dirty /\ last.pv = None) =>
        /\ last.pfile.exists
        /\ last.ret.kind # "panic"

\* The freshness predicate as the specification words it: a threshold d is
\* set, and the time since the modification of f cannot be determined at
\* time t (file missing, modification time unavailable or ahead of the
\* clock) or is at least d.
DirtyAsSpecified(dt, f, t) ==
    /\ dt # None
    /\ \/ ~f.exists
       \/ f.perm = "nometa"
       \/ f.mtime > t
       \/ t - f.mtime >= dt[1]

\* C16: file_is_dirty is true exactly when a threshold is set and the age of
\* the file is unknown or at least the threshold, in every state and in
\* every call that evaluated it; with no threshold it is false.
C16_FreshnessPredicate ==
    /\ FileIsDirty(dirty_time, file, now)
          <=> DirtyAsSpecified(dirty_time, file, now)
    /\ dirty_time = None => ~FileIsDirty(dirty_time, file, now)
    /\ last.op \in Accessors =>
          (last.dirty <=> DirtyAsSpecified(dirty_time, last.pfile, now))

\* A get() made at the boundary: the age of the file equals the threshold,
\* the file is dirty and is read again.
C16_Witness ==
    /\ last.op = "get"
    /\ IsSome(dirty_time)
    /\ Unwrap(dirty_time) > 0
    /\ last.pfile.exists
    /\ last.pfile.perm = "rw"
    /\ now - last.pfile.mtime = Unwrap(dirty_time)
    /\ IsSome(last.pv)
    /\ last.dirty
    /\ last.read

\* C17: with no threshold set, a get_or_insert / get_or_insert_with call
\* does not write the backing file or invoke the closure, and what it
\* stores and returns is the held value or the value read from the file,
\* not the default; a call that creates the file on such an instance is an
\* insert.
C17_NoThresholdNoDefault ==
    /\ (last.op \in InsertOrCompute /\ dirty_time = None) =>
          /\ ~last.wrote
          /\ file = last.pfile
          /\ last.calls = 0
          /\ IsSome(last.pv) => (last.ret = Ok(last.pv) /\ value = last.pv)
          /\ (last.pv = None /\ last.ret.kind = "ok") =>
                /\ last.pfile.exists
                /\ FromJson(last.pfile.content).ok
                /\ last.ret = Ok(Some(FromJson(last.pfile.content).val))
                /\ value = last.ret.val
          /\ last.ret.kind # "ok" => value = last.pv
    /\ (dirty_time = None /\ last.op \in Calls
        /\ ~last.pfile.exists /\ file.exists) => last.op = "insert"

\* The default is the only value at hand (nothing held, no file) and is
\* still not stored or written.
C17_Witness ==
    /\ last.op = "get_or_insert"
    /\ dirty_time = None
    /\ last.pv = None
    /\ ~last.pfile.exists
    /\ ~file.exists
    /\ value = None
    /\ last.ret.kind # "ok"

\* C18: with a threshold set, a get() called while a value is held and the
\* backing file is missing returns Ok(None) and leaves no value in memory;
\* and a get() returns Ok(None) only when it read the file and found it
\* missing.
C18_MissingFileDropsValue ==
    /\ (/\ last.op = "get"
        /\ IsSome(dirty_time)
        /\ ~last.pfile.exists
        /\ IsSome(last.pv)) => (last.ret = Ok(None) /\ value = None)
    /\ (last.op = "get" /\ last.ret = Ok(None)) =>
          (last.read /\ ~last.pfile.exists)

C18_Witness ==
    /\ last.op = "get"
    /\ IsSome(dirty_time)
    /\ ~last.pfile.exists
    /\ IsSome(last.pv)
    /\ last.ret = Ok(None)
    /\ value = None
    /\ persisted.val = last.pv

\* C19: the threshold is absent on a new instance, set_dirty_time(d) makes
\* it Some(d), get, get_or_insert, get_or_insert_with, insert and set_dirty
\* leave it as it is, and on one instance a threshold that is set stays set.
C19_ThresholdMonotone ==
    [][/\ (last'.op \in Constructors /\ last'.ret.kind = "ok")
             => dirty_time' = None
       /\ last'.op = "set_dirty_time"
             => \E d \in Durations : dirty_time' = Some(d)
       /\ last'.op \in Methods => dirty_time' = dirty_time
       /\ (IsSome(dirty_time) /\ last'.op \notin Constructors)
             => IsSome(dirty_time')]_vars

C19_Witness ==
    /\ last.op = "set_dirty"
    /\ IsSome(last.pv)
    /\ IsSome(dirty_time)
    /\ value = None

====
